---------------------------- MODULE Spec2Model ----------------------------
(***************************************************************************)
(* trafficmon: the retention-windowed statistics aggregator                *)
(* (src/src/stats.rs), the flow classifier with its cache (src/src/main.rs)*)
(* the raw-packet classifier (src/src/classifier.rs), the threads of main  *)
(* with their two locks and the running flag (src/src/main.rs), and the    *)
(* nft commands of NftablesClassifier::initialize (src/src/nftables.rs).   *)
(*                                                                         *)
(* Time.  SystemTime::now() is the wall clock: it normally advances (Tick) *)
(* and may be set back (ClockBack).  One clock unit is 30 minutes, so the  *)
(* retention period of 3600 s is 2 units.  A critical section is short     *)
(* against a clock unit: the reads of now() inside one call return the     *)
(* same value.  Where the statements of a call are steps of their own      *)
(* (SpecThreads), clean_old_data reads the clock at its own step.          *)
(*                                                                         *)
(* Counters are u64 in the code; within the bounds below they stay far     *)
(* from 2^64, so the sums are plain integer sums.                          *)
(***************************************************************************)
EXTENDS Integers, Sequences, FiniteSets, TLC

VARIABLES
    clock,      \* SystemTime::now()
    current,    \* StatsData.current : service -> TrafficData
    history,    \* StatsData.history : sequence of <<timestamp, service -> TrafficData>>
    lastOp,     \* the operation that made the last step
    ret,        \* what that operation returned (NoRet when it returns nothing)
    openSum,    \* observer: per service, the bytes and packets passed to add_traffic
                \*   since the open window began
    nAdds,      \* observer: add_traffic calls since construction or reset_stats
    obs,        \* observer: what the last call found and did
    ledger,     \* observer: per service, the bytes and packets passed to add_traffic
                \*   since construction or reset_stats, until a purge removes an entry
    cache,      \* NftablesClassifier.cache : cache key -> ClassifiedTraffic
    clsOp,      \* the classifier operation that made the last step
    cret,       \* what that operation returned
    calls,      \* observer: the classify_traffic calls since construction or clear_cache
    cleared,    \* observer: the cache as the last clear_cache found it, kept up to
                \*   the first classify_traffic call after it
    flow,       \* the flow tuple handed to a single classify_traffic call
    pkt,        \* the packet data handed to classify_packet
    pin,        \* observer: the length and destination port pkt was built from
    plabel,     \* what classify_packet returned ("" before the call)
    owner,      \* the thread that holds the guard of TrafficStats.data, or NoOwner
    poisoned,   \* the poison flag of the Mutex
    pc,         \* where each thread stands in the call it makes
    loc,        \* the arguments and locals of the call each thread makes
    running,    \* main's AtomicBool: cleared by the Ctrl-C handler
    at,         \* where main, the capture thread and the report thread stand
    statsLock,  \* the thread that holds the guard of main's stats Mutex, or NoOwner
    classifierLock, \* the thread that holds the guard of main's classifier Mutex
    sample,     \* the entry of sample_traffic the capture thread works on
    nft         \* NftablesClassifier::initialize: its position, the nft commands
                \*   issued so far with their outcomes, and what it returned

statsVars == <<clock, current, history, lastOp, ret, openSum, nAdds, obs, ledger>>

clsVars == <<cache, clsOp, cret, calls, cleared>>

inputVars == <<flow, pkt, pin, plabel>>

thrVars == <<owner, poisoned, pc, loc>>

mainVars == <<running, at, statsLock, classifierLock, sample>>

progVars == <<mainVars, nft>>

vars == <<statsVars, clsVars, inputVars, thrVars, progVars>>

---------------------------------------------------------------------------
(* Bounds of the model *)

MaxClock == 2
MaxAdds == 2
MaxCalls == 3
MaxPacketLen == 36

\* the services and the <<bytes, packets>> observations add_traffic is called with
Labels == {"netflix", "youtube"}

Observations == {<<2, 1>>, <<1, 2>>}

\* Duration::from_secs(3600), in clock units of 1800 s
RetentionPeriod == 2

---------------------------------------------------------------------------
(* Maps *)

EmptyMap == [x \in {} |-> 0]

NoRet == <<>>

\* Option<T>
None == <<>>

Some(x) == <<x>>

NoObs == [hadCur |-> FALSE, hadHist |-> 0, purged |-> 0, arg |-> ""]

NoLedger == [total |-> EmptyMap, purged |-> FALSE]

---------------------------------------------------------------------------
(* TrafficStats *)

\* TrafficData created by or_insert_with in add_traffic
NewTrafficData(now) ==
    [bytes |-> 0, packets |-> 0, first_seen |-> now, last_seen |-> now]

\* data.current.entry(service).or_insert_with(..)
EntryOrInsert(map, service, now) ==
    IF service \in DOMAIN map THEN map ELSE map @@ (service :> NewTrafficData(now))

\* add_traffic with "=" for "+=" on the counters
AddTo_Overwrite(map, service, bytes, packets, now) ==
    [EntryOrInsert(map, service, now) EXCEPT
        ![service] = [bytes      |-> bytes,
                      packets    |-> packets,
                      first_seen |-> @.first_seen,
                      last_seen  |-> now]]

\* the body of add_traffic on the open accumulator
AddTo(map, service, bytes, packets, now) ==
    [EntryOrInsert(map, service, now) EXCEPT
        ![service] = [bytes      |-> @.bytes + bytes,
                      packets    |-> @.packets + packets,
                      first_seen |-> @.first_seen,
                      last_seen  |-> now]]

\* the retain predicate with "<=" for "<"
Retained_Inclusive(timestamp, now) ==
    IF timestamp <= now THEN now - timestamp <= RetentionPeriod ELSE FALSE

\* the retain predicate with unwrap_or(true): an entry stamped later than now is kept
Retained_KeepsFuture(timestamp, now) ==
    IF timestamp <= now THEN now - timestamp < RetentionPeriod ELSE TRUE

\* the retain predicate of clean_old_data:
\*   now.duration_since(timestamp).map(|dur| dur < retention_period).unwrap_or(false)
\* duration_since is Err when timestamp is later than now
Retained(timestamp, now) ==
    IF timestamp <= now THEN now - timestamp < RetentionPeriod ELSE FALSE

clean_old_data(h, now) == SelectSeq(h, LAMBDA e : Retained(e[1], now))

\* the window close without the is_empty test
CloseWindow_Always(h, cur, now) == Append(h, <<now, cur>>)

\* the window close that overwrites History with the closed window
CloseWindow_Replace(h, cur, now) == IF cur # EmptyMap THEN << <<now, cur>> >> ELSE h

\* the window close with clear() before clone(): the entry pushed is empty
CloseWindow_AfterClear(h, cur, now) ==
    IF cur # EmptyMap THEN Append(h, <<now, EmptyMap>>) ELSE h

\* the window close at the head of get_stats and get_detailed_stats
CloseWindow(h, cur, now) == IF cur # EmptyMap THEN Append(h, <<now, cur>>) ELSE h

\* one round of the outer loop of merge_history
MergeInto(merged, stats) ==
    [s \in DOMAIN merged \cup DOMAIN stats |->
        LET old == IF s \in DOMAIN merged THEN merged[s] ELSE <<0, 0>>
        IN  IF s \in DOMAIN stats
            THEN <<old[1] + stats[s].bytes, old[2] + stats[s].packets>>
            ELSE old]

RECURSIVE MergeFrom(_, _)
MergeFrom(merged, h) ==
    IF h = <<>> THEN merged ELSE MergeFrom(MergeInto(merged, Head(h)[2]), Tail(h))

merge_history(h) == MergeFrom(EmptyMap, h)

\* the merge of one bucket without the update of last_seen
DetailedEntry_NoMax(merged, service, td) ==
    LET e0 == IF service \in DOMAIN merged
              THEN merged[service]
              ELSE [bytes |-> 0, packets |-> 0,
                    first_seen |-> td.first_seen, last_seen |-> td.last_seen]
    IN  [bytes      |-> e0.bytes + td.bytes,
         packets    |-> e0.packets + td.packets,
         first_seen |-> IF td.first_seen < e0.first_seen
                        THEN td.first_seen ELSE e0.first_seen,
         last_seen  |-> e0.last_seen]

\* one round of the inner loop of the merge in get_detailed_stats
DetailedEntry(merged, service, td) ==
    LET e0 == IF service \in DOMAIN merged
              THEN merged[service]
              ELSE [bytes |-> 0, packets |-> 0,
                    first_seen |-> td.first_seen, last_seen |-> td.last_seen]
    IN  [bytes      |-> e0.bytes + td.bytes,
         packets    |-> e0.packets + td.packets,
         first_seen |-> IF td.first_seen < e0.first_seen
                        THEN td.first_seen ELSE e0.first_seen,
         last_seen  |-> IF td.last_seen > e0.last_seen
                        THEN td.last_seen ELSE e0.last_seen]

DetailedInto(merged, stats) ==
    [s \in DOMAIN merged \cup DOMAIN stats |->
        IF s \in DOMAIN stats THEN DetailedEntry(merged, s, stats[s]) ELSE merged[s]]

RECURSIVE DetailedFrom(_, _)
DetailedFrom(merged, h) ==
    IF h = <<>> THEN merged ELSE DetailedFrom(DetailedInto(merged, Head(h)[2]), Tail(h))

merge_detailed(h) == DetailedFrom(EmptyMap, h)

\* the loop body without the update of first_seen
ServiceStep_KeepFirstSeen(result, stats, service) ==
    IF service \notin DOMAIN stats THEN result
    ELSE IF result = None THEN Some(stats[service])
    ELSE LET res == result[1]
             historical == stats[service]
         IN  Some([bytes      |-> res.bytes + historical.bytes,
                   packets    |-> res.packets + historical.packets,
                   first_seen |-> res.first_seen,
                   last_seen  |-> IF historical.last_seen > res.last_seen
                                  THEN historical.last_seen ELSE res.last_seen])

\* one round of the loop over history in get_service_stats
ServiceStep(result, stats, service) ==
    IF service \notin DOMAIN stats THEN result
    ELSE IF result = None THEN Some(stats[service])
    ELSE LET res == result[1]
             historical == stats[service]
         IN  Some([bytes      |-> res.bytes + historical.bytes,
                   packets    |-> res.packets + historical.packets,
                   first_seen |-> IF historical.first_seen < res.first_seen
                                  THEN historical.first_seen ELSE res.first_seen,
                   last_seen  |-> IF historical.last_seen > res.last_seen
                                  THEN historical.last_seen ELSE res.last_seen])

RECURSIVE ServiceFrom(_, _, _)
ServiceFrom(result, h, service) ==
    IF h = <<>> THEN result
    ELSE ServiceFrom(ServiceStep(result, Head(h)[2], service), Tail(h), service)

get_service_stats(cur, h, service) ==
    ServiceFrom(IF service \in DOMAIN cur THEN Some(cur[service]) ELSE None, h, service)

---------------------------------------------------------------------------
(* The operations of TrafficStats, each one critical section *)

\* TrafficStats::new
InitStats ==
    /\ clock \in 0..MaxClock
    /\ current = EmptyMap
    /\ history = <<>>
    /\ lastOp = "new"
    /\ ret = NoRet
    /\ openSum = EmptyMap
    /\ nAdds = 0
    /\ obs = NoObs
    /\ ledger = NoLedger

\* observer: the running sum of what the callers passed for each service
Tally(sum, service, bytes, packets) ==
    [s \in DOMAIN sum \cup {service} |->
        LET old == IF s \in DOMAIN sum THEN sum[s] ELSE <<0, 0>>
        IN  IF s = service THEN <<old[1] + bytes, old[2] + packets>> ELSE old]

Observe ==
    [hadCur |-> current # EmptyMap, hadHist |-> Len(history), purged |-> 0, arg |-> ""]

AddTraffic(service, bytes, packets) ==
    /\ nAdds < MaxAdds
    /\ current' = AddTo(current, service, bytes, packets, clock)
    /\ openSum' = Tally(openSum, service, bytes, packets)
    /\ nAdds' = nAdds + 1
    /\ lastOp' = "add_traffic"
    /\ ret' = NoRet
    /\ obs' = [Observe EXCEPT !.arg = service]
    /\ ledger' = IF ledger.purged THEN ledger
                 ELSE [ledger EXCEPT !.total = Tally(@, service, bytes, packets)]
    /\ UNCHANGED <<clock, history>>
    /\ UNCHANGED <<clsVars, inputVars, thrVars, progVars>>

\* the close and purge that get_stats and get_detailed_stats share
CloseAndPurge ==
    LET closed == CloseWindow(history, current, clock)
    IN  /\ history' = clean_old_data(closed, clock)
        /\ current' = EmptyMap
        /\ openSum' = EmptyMap
        /\ obs' = [Observe EXCEPT !.purged = Len(closed) - Len(history')]
        /\ ledger' = IF ledger.purged \/ Len(history') < Len(closed)
                     THEN [total |-> EmptyMap, purged |-> TRUE]
                     ELSE ledger

GetStats ==
    /\ CloseAndPurge
    /\ ret' = merge_history(history')
    /\ lastOp' = "get_stats"
    /\ UNCHANGED <<clock, nAdds>>
    /\ UNCHANGED <<clsVars, inputVars, thrVars, progVars>>

GetDetailedStats ==
    /\ CloseAndPurge
    /\ ret' = merge_detailed(history')
    /\ lastOp' = "get_detailed_stats"
    /\ UNCHANGED <<clock, nAdds>>
    /\ UNCHANGED <<clsVars, inputVars, thrVars, progVars>>

\* get_service_stats that purges History before it reads
GetServiceStats_Purging(service) ==
    /\ history' = clean_old_data(history, clock)
    /\ ret' = get_service_stats(current, history', service)
    /\ lastOp' = "get_service_stats"
    /\ obs' = [Observe EXCEPT !.arg = service]
    /\ UNCHANGED <<clock, current, openSum, nAdds, ledger>>
    /\ UNCHANGED <<clsVars, inputVars, thrVars, progVars>>

GetServiceStats(service) ==
    /\ ret' = get_service_stats(current, history, service)
    /\ lastOp' = "get_service_stats"
    /\ obs' = [Observe EXCEPT !.arg = service]
    /\ UNCHANGED <<clock, current, history, openSum, nAdds, ledger>>
    /\ UNCHANGED <<clsVars, inputVars, thrVars, progVars>>

\* reset_stats without data.history.clear()
ResetStats_KeepsHistory ==
    /\ current' = EmptyMap
    /\ openSum' = EmptyMap
    /\ nAdds' = 0
    /\ lastOp' = "reset_stats"
    /\ ret' = NoRet
    /\ obs' = Observe
    /\ ledger' = NoLedger
    /\ UNCHANGED <<clock, history>>
    /\ UNCHANGED <<clsVars, inputVars, thrVars, progVars>>

ResetStats ==
    /\ current' = EmptyMap
    /\ history' = <<>>
    /\ openSum' = EmptyMap
    /\ nAdds' = 0
    /\ lastOp' = "reset_stats"
    /\ ret' = NoRet
    /\ obs' = Observe
    /\ ledger' = NoLedger
    /\ UNCHANGED clock
    /\ UNCHANGED <<clsVars, inputVars, thrVars, progVars>>

\* the wall clock advances
Tick ==
    /\ clock < MaxClock
    /\ clock' = clock + 1
    /\ lastOp' = "tick"
    /\ ret' = NoRet
    /\ obs' = NoObs
    /\ UNCHANGED <<current, history, openSum, nAdds, ledger>>
    /\ UNCHANGED <<clsVars, inputVars, thrVars, progVars>>

\* the wall clock is set back
ClockBack ==
    /\ \E t \in 0..(clock - 1) : clock' = t
    /\ lastOp' = "clock_back"
    /\ ret' = NoRet
    /\ obs' = NoObs
    /\ UNCHANGED <<current, history, openSum, nAdds, ledger>>
    /\ UNCHANGED <<clsVars, inputVars, thrVars, progVars>>

NextStats ==
    \/ \E s \in Labels, o \in Observations : AddTraffic(s, o[1], o[2])
    \/ GetStats
    \/ GetDetailedStats
    \/ \E s \in Labels : GetServiceStats(s)
    \/ ResetStats
    \/ Tick
    \/ ClockBack

---------------------------------------------------------------------------
(* TrafficStats shared by threads: every operation begins with              *)
(* self.data.lock().unwrap() and holds the guard until it returns.  The     *)
(* statements of a call are steps of their own here, so that the mutual     *)
(* exclusion is what makes a call atomic.  Two producers make one           *)
(* add_traffic call each; a consumer makes the other calls, any number of   *)
(* times.                                                                   *)

Producers == {"p1", "p2"}

Consumers == {"c1"}

Threads == Producers \cup Consumers

NoOwner == "none"

NoLocals == [op |-> "", service |-> "", bytes |-> 0, packets |-> 0, now |-> 0]

\* no thread is inside a call
IdleThreads ==
    /\ owner = NoOwner
    /\ poisoned = FALSE
    /\ pc = [t \in Threads |-> "idle"]
    /\ loc = [t \in Threads |-> NoLocals]

\* a lock() that returns whether or not another thread holds the guard
TryLock_NoExclusion(t) == TRUE

\* Mutex::lock returns to t once no thread holds the guard
TryLock(t) == owner = NoOwner

\* a lock() result taken out of the PoisonError
LockFails_Never == FALSE

\* lock() returns Err(PoisonError) once a thread has panicked holding the guard
LockFails == poisoned

\* lock().unwrap() and SystemTime::now() at the head of an operation
Enter(t, op, start, service, bytes, packets) ==
    /\ pc[t] = "idle"
    /\ TryLock(t)
    /\ IF LockFails
       THEN /\ pc' = [pc EXCEPT ![t] = "panicked"]
            /\ UNCHANGED <<owner, loc>>
       ELSE /\ owner' = t
            /\ pc' = [pc EXCEPT ![t] = start]
            /\ loc' = [loc EXCEPT ![t] = [op |-> op, service |-> service,
                                          bytes |-> bytes, packets |-> packets,
                                          now |-> clock]]
    /\ UNCHANGED poisoned

\* the guard is dropped at the end of the operation
Leave(t, next) ==
    /\ owner' = NoOwner
    /\ pc' = [pc EXCEPT ![t] = next]
    /\ loc' = [loc EXCEPT ![t] = NoLocals]
    /\ UNCHANGED poisoned

\* a statement inside the critical section
Goto(t, next) ==
    /\ pc' = [pc EXCEPT ![t] = next]
    /\ UNCHANGED <<owner, poisoned, loc>>

\* add_traffic: lock and now
AddLock(t, service, bytes, packets) ==
    /\ Enter(t, "add_traffic", "add_entry", service, bytes, packets)
    /\ IF LockFails
       THEN UNCHANGED <<openSum, nAdds, ledger>>
       ELSE /\ openSum' = Tally(openSum, service, bytes, packets)
            /\ nAdds' = nAdds + 1
            /\ ledger' = IF ledger.purged THEN ledger
                         ELSE [ledger EXCEPT !.total = Tally(@, service, bytes, packets)]
    /\ UNCHANGED <<clock, current, history, lastOp, ret, obs>>
    /\ UNCHANGED <<clsVars, inputVars, progVars>>

\* add_traffic: data.current.entry(service).or_insert_with(..)
AddEntry(t) ==
    /\ pc[t] = "add_entry"
    /\ current' = EntryOrInsert(current, loc[t].service, loc[t].now)
    /\ Goto(t, "add_bytes")
    /\ UNCHANGED <<clock, history, lastOp, ret, openSum, nAdds, obs, ledger>>
    /\ UNCHANGED <<clsVars, inputVars, progVars>>

\* add_traffic: traffic_data.bytes += bytes
AddBytes(t) ==
    /\ pc[t] = "add_bytes"
    /\ current' = [current EXCEPT ![loc[t].service].bytes = @ + loc[t].bytes]
    /\ Goto(t, "add_packets")
    /\ UNCHANGED <<clock, history, lastOp, ret, openSum, nAdds, obs, ledger>>
    /\ UNCHANGED <<clsVars, inputVars, progVars>>

\* add_traffic: traffic_data.packets += packets
AddPackets(t) ==
    /\ pc[t] = "add_packets"
    /\ current' = [current EXCEPT ![loc[t].service].packets = @ + loc[t].packets]
    /\ Goto(t, "add_last_seen")
    /\ UNCHANGED <<clock, history, lastOp, ret, openSum, nAdds, obs, ledger>>
    /\ UNCHANGED <<clsVars, inputVars, progVars>>

\* add_traffic: traffic_data.last_seen = now, and return
AddLastSeen(t) ==
    /\ pc[t] = "add_last_seen"
    /\ current' = [current EXCEPT ![loc[t].service].last_seen = loc[t].now]
    /\ lastOp' = "add_traffic"
    /\ ret' = NoRet
    /\ obs' = NoObs
    /\ Leave(t, "done")
    /\ UNCHANGED <<clock, history, openSum, nAdds, ledger>>
    /\ UNCHANGED <<clsVars, inputVars, progVars>>

\* add_traffic: a "+=" on a u64 counter overflows and panics (a build with
\* overflow checks); the guard is dropped while the thread unwinds, which
\* poisons the Mutex
AddFault(t) ==
    /\ pc[t] \in {"add_bytes", "add_packets"}
    /\ poisoned' = TRUE
    /\ owner' = NoOwner
    /\ pc' = [pc EXCEPT ![t] = "panicked"]
    /\ loc' = [loc EXCEPT ![t] = NoLocals]
    /\ UNCHANGED statsVars
    /\ UNCHANGED <<clsVars, inputVars, progVars>>

\* get_stats and get_detailed_stats: lock and now
QueryLock(t, op) ==
    /\ Enter(t, op, "close", "", 0, 0)
    /\ UNCHANGED statsVars
    /\ UNCHANGED <<clsVars, inputVars, progVars>>

\* get_stats and get_detailed_stats: data.history.push((now, data.current.clone()))
QueryPush(t) ==
    /\ pc[t] = "close"
    /\ history' = CloseWindow(history, current, loc[t].now)
    /\ Goto(t, IF current # EmptyMap THEN "clear" ELSE "clean")
    /\ UNCHANGED <<clock, current, lastOp, ret, openSum, nAdds, obs, ledger>>
    /\ UNCHANGED <<clsVars, inputVars, progVars>>

\* get_stats and get_detailed_stats: data.current.clear()
QueryClear(t) ==
    /\ pc[t] = "clear"
    /\ current' = EmptyMap
    /\ openSum' = EmptyMap
    /\ Goto(t, "clean")
    /\ UNCHANGED <<clock, history, lastOp, ret, nAdds, obs, ledger>>
    /\ UNCHANGED <<clsVars, inputVars, progVars>>

\* get_stats and get_detailed_stats: self.clean_old_data(&mut data), with its own now
QueryClean(t) ==
    /\ pc[t] = "clean"
    /\ history' = clean_old_data(history, clock)
    /\ ledger' = IF ledger.purged \/ Len(history') < Len(history)
                 THEN [total |-> EmptyMap, purged |-> TRUE]
                 ELSE ledger
    /\ Goto(t, "merge")
    /\ UNCHANGED <<clock, current, lastOp, ret, openSum, nAdds, obs>>
    /\ UNCHANGED <<clsVars, inputVars, progVars>>

\* get_stats and get_detailed_stats: the merge of History, and return
QueryMerge(t) ==
    /\ pc[t] = "merge"
    /\ ret' = IF loc[t].op = "get_stats"
              THEN merge_history(history) ELSE merge_detailed(history)
    /\ lastOp' = loc[t].op
    /\ obs' = NoObs
    /\ Leave(t, "idle")
    /\ UNCHANGED <<clock, current, history, openSum, nAdds, ledger>>
    /\ UNCHANGED <<clsVars, inputVars, progVars>>

\* get_service_stats: lock
ServiceLock(t, service) ==
    /\ Enter(t, "get_service_stats", "service", service, 0, 0)
    /\ UNCHANGED statsVars
    /\ UNCHANGED <<clsVars, inputVars, progVars>>

\* get_service_stats: the reads, and return
ServiceRead(t) ==
    /\ pc[t] = "service"
    /\ ret' = get_service_stats(current, history, loc[t].service)
    /\ lastOp' = "get_service_stats"
    /\ obs' = [NoObs EXCEPT !.arg = loc[t].service]
    /\ Leave(t, "idle")
    /\ UNCHANGED <<clock, current, history, openSum, nAdds, ledger>>
    /\ UNCHANGED <<clsVars, inputVars, progVars>>

\* reset_stats: lock
ResetLock(t) ==
    /\ Enter(t, "reset_stats", "reset", "", 0, 0)
    /\ UNCHANGED statsVars
    /\ UNCHANGED <<clsVars, inputVars, progVars>>

\* reset_stats: the two clear() calls, and return
ResetClear(t) ==
    /\ pc[t] = "reset"
    /\ current' = EmptyMap
    /\ history' = <<>>
    /\ openSum' = EmptyMap
    /\ nAdds' = 0
    /\ ledger' = NoLedger
    /\ lastOp' = "reset_stats"
    /\ ret' = NoRet
    /\ obs' = NoObs
    /\ Leave(t, "idle")
    /\ UNCHANGED clock
    /\ UNCHANGED <<clsVars, inputVars, progVars>>

NextThreads ==
    \/ \E t \in Producers, s \in Labels, o \in Observations : AddLock(t, s, o[1], o[2])
    \/ \E t \in Producers : AddEntry(t)
    \/ \E t \in Producers : AddBytes(t)
    \/ \E t \in Producers : AddPackets(t)
    \/ \E t \in Producers : AddLastSeen(t)
    \/ \E t \in Producers : AddFault(t)
    \/ \E t \in Consumers, op \in {"get_stats", "get_detailed_stats"} : QueryLock(t, op)
    \/ \E t \in Consumers : QueryPush(t)
    \/ \E t \in Consumers : QueryClear(t)
    \/ \E t \in Consumers : QueryClean(t)
    \/ \E t \in Consumers : QueryMerge(t)
    \/ \E t \in Consumers, s \in Labels : ServiceLock(t, s)
    \/ \E t \in Consumers : ServiceRead(t)
    \/ \E t \in Consumers : ResetLock(t)
    \/ \E t \in Consumers : ResetClear(t)
    \/ Tick

---------------------------------------------------------------------------
(* Strings the classifier inspects, as sequences of characters *)

UpperCase ==
    <<"A", "B", "C", "D", "E", "F", "G", "H", "I", "J", "K", "L", "M",
      "N", "O", "P", "Q", "R", "S", "T", "U", "V", "W", "X", "Y", "Z">>

LowerCase ==
    <<"a", "b", "c", "d", "e", "f", "g", "h", "i", "j", "k", "l", "m",
      "n", "o", "p", "q", "r", "s", "t", "u", "v", "w", "x", "y", "z">>

LowerChar(c) ==
    IF \E i \in 1..26 : UpperCase[i] = c
    THEN LowerCase[CHOOSE i \in 1..26 : UpperCase[i] = c]
    ELSE c

\* str::to_lowercase
to_lowercase(str) == [i \in 1..Len(str) |-> LowerChar(str[i])]

\* str::contains
contains(str, pat) ==
    \E i \in 1..(Len(str) - Len(pat) + 1) : SubSeq(str, i, i + Len(pat) - 1) = pat

HTTP == <<"H", "T", "T", "P">>
HTTPS == <<"H", "T", "T", "P", "S">>
HTTP_Alt == <<"H", "T", "T", "P", "-", "A", "l", "t">>
MySQL == <<"M", "y", "S", "Q", "L">>
PostgreSQL == <<"P", "o", "s", "t", "g", "r", "e", "S", "Q", "L">>
MongoDB == <<"M", "o", "n", "g", "o", "D", "B">>
DNS == <<"D", "N", "S">>
FTP == <<"F", "T", "P">>
SSH == <<"S", "S", "H">>
SMTP == <<"S", "M", "T", "P">>
Unknown == <<"U", "n", "k", "n", "o", "w", "n">>

---------------------------------------------------------------------------
(* NftablesClassifier (src/src/main.rs) *)

\* u16::MAX
U16Max == 65535

\* enum TrafficCategory
TrafficCategory ==
    {"Web", "Database", "Streaming", "FileTransfer", "Gaming", "Voip", "Malicious",
     "Unknown"}

\* initialize_application_map
application_map ==
    (<<80, "tcp">> :> HTTP) @@ (<<443, "tcp">> :> HTTPS) @@ (<<8080, "tcp">> :> HTTP_Alt)
    @@ (<<3306, "tcp">> :> MySQL) @@ (<<5432, "tcp">> :> PostgreSQL)
    @@ (<<27017, "tcp">> :> MongoDB)
    @@ (<<53, "udp">> :> DNS) @@ (<<53, "tcp">> :> DNS)

\* the well-known ports with FTP for 21 alone
WellKnownPort_FtpControlOnly(port_num) ==
    CASE port_num = 21 -> FTP
      [] port_num = 22 -> SSH
      [] port_num = 25 -> SMTP
      [] port_num = 53 -> DNS
      [] port_num = 80 -> HTTP
      [] port_num = 443 -> HTTPS
      [] port_num = 3306 -> MySQL
      [] port_num = 5432 -> PostgreSQL
      [] OTHER -> Unknown

\* the match on port_num in detect_application
WellKnownPort(port_num) ==
    CASE port_num \in 20..21 -> FTP
      [] port_num = 22 -> SSH
      [] port_num = 25 -> SMTP
      [] port_num = 53 -> DNS
      [] port_num = 80 -> HTTP
      [] port_num = 443 -> HTTPS
      [] port_num = 3306 -> MySQL
      [] port_num = 5432 -> PostgreSQL
      [] OTHER -> Unknown

detect_application(port, protocol) ==
    IF port # None
    THEN IF <<port[1], protocol>> \in DOMAIN application_map
         THEN application_map[<<port[1], protocol>>]
         ELSE WellKnownPort(port[1])
    ELSE Unknown

\* the port categories with the RTMP port 1935 as Streaming
CategoryOfPort_Rtmp(port_num) ==
    CASE port_num \in {80, 443, 8080, 8443} -> "Web"
      [] port_num \in {3306, 5432, 27017} -> "Database"
      [] port_num \in {21, 22} -> "FileTransfer"
      [] port_num = 1935 -> "Streaming"
      [] OTHER -> "Unknown"

\* the port categories without the alternative TLS port 8443
CategoryOfPort_No8443(port_num) ==
    CASE port_num \in {80, 443, 8080} -> "Web"
      [] port_num \in {3306, 5432, 27017} -> "Database"
      [] port_num \in {21, 22} -> "FileTransfer"
      [] OTHER -> "Unknown"

\* the match on port_num in detect_category
CategoryOfPort(port_num) ==
    CASE port_num \in {80, 443, 8080, 8443} -> "Web"
      [] port_num \in {3306, 5432, 27017} -> "Database"
      [] port_num \in {21, 22} -> "FileTransfer"
      [] OTHER -> "Unknown"

detect_category(application, port, protocol) ==
    LET app_lower == to_lowercase(application)
    IN  IF contains(app_lower, <<"h", "t", "t", "p">>) \/ contains(app_lower, <<"w", "e", "b">>)
        THEN "Web"
        ELSE IF contains(app_lower, <<"m", "y", "s", "q", "l">>)
                \/ contains(app_lower, <<"p", "o", "s", "t", "g", "r", "e", "s">>)
        THEN "Database"
        ELSE IF port # None THEN CategoryOfPort(port[1]) ELSE "Unknown"

\* Option<u16>::unwrap_or(0)
UnwrapOr0(port) == IF port = None THEN 0 ELSE port[1]

\* format!("{}-{}-{}-{}-{}", ..): the five displayed components; the joined
\* string determines them as long as no address or protocol holds a "-"
cache_key(source_ip, destination_ip, source_port, destination_port, protocol) ==
    <<source_ip, destination_ip, UnwrapOr0(source_port), UnwrapOr0(destination_port),
      protocol>>

\* the ClassifiedTraffic built on a cache miss
Classified(source_ip, destination_ip, source_port, destination_port, protocol, bytes) ==
    LET application == detect_application(destination_port, protocol)
    IN  [bytes            |-> bytes,
         packets          |-> 1,
         protocol         |-> protocol,
         source_ip        |-> source_ip,
         destination_ip   |-> destination_ip,
         source_port      |-> source_port,
         destination_port |-> destination_port,
         application      |-> application,
         category         |-> detect_category(application, destination_port, protocol)]

RECURSIVE SumPackets(_, _)
SumPackets(c, keys) ==
    IF keys = {} THEN 0
    ELSE LET k == CHOOSE k \in keys : TRUE
         IN  c[k].packets + SumPackets(c, keys \ {k})

\* get_traffic_summary adding up traffic.packets
get_traffic_summary_Packets(c) ==
    [cat \in {c[k].category : k \in DOMAIN c} |->
        SumPackets(c, {k \in DOMAIN c : c[k].category = cat})]

RECURSIVE SumBytes(_, _)
SumBytes(c, keys) ==
    IF keys = {} THEN 0
    ELSE LET k == CHOOSE k \in keys : TRUE
         IN  c[k].bytes + SumBytes(c, keys \ {k})

get_traffic_summary(c) ==
    [cat \in {c[k].category : k \in DOMAIN c} |->
        SumBytes(c, {k \in DOMAIN c : c[k].category = cat})]

\* NftablesClassifier::new
InitClassifier ==
    /\ cache = EmptyMap
    /\ clsOp = "new"
    /\ cret = NoRet
    /\ calls = <<>>
    /\ cleared = EmptyMap

\* classify_traffic that refreshes the byte count of a cached entry on a hit
classify_traffic_Refresh(c, source_ip, destination_ip, source_port, destination_port, protocol, bytes) ==
    LET key == cache_key(source_ip, destination_ip, source_port, destination_port, protocol)
    IN  IF key \in DOMAIN c
        THEN [hit |-> TRUE,
              classified |-> [c[key] EXCEPT !.bytes = bytes],
              cache |-> [c EXCEPT ![key].bytes = bytes]]
        ELSE LET classified == Classified(source_ip, destination_ip, source_port,
                                          destination_port, protocol, bytes)
             IN  [hit |-> FALSE, classified |-> classified,
                  cache |-> c @@ (key :> classified)]

\* classify_traffic on the cache c: what it returns and the cache it leaves
classify_traffic(c, source_ip, destination_ip, source_port, destination_port, protocol, bytes) ==
    LET key == cache_key(source_ip, destination_ip, source_port, destination_port, protocol)
    IN  IF key \in DOMAIN c
        THEN [hit |-> TRUE, classified |-> c[key], cache |-> c]
        ELSE LET classified == Classified(source_ip, destination_ip, source_port,
                                          destination_port, protocol, bytes)
             IN  [hit |-> FALSE, classified |-> classified,
                  cache |-> c @@ (key :> classified)]

ClassifyTraffic(source_ip, destination_ip, source_port, destination_port, protocol, bytes) ==
    LET r == classify_traffic(cache, source_ip, destination_ip, source_port,
                              destination_port, protocol, bytes)
    IN  /\ Len(calls) < MaxCalls
        /\ cache' = r.cache
        /\ cret' = r.classified
        /\ clsOp' = "classify_traffic"
        /\ calls' = Append(calls,
                           [args   |-> <<source_ip, destination_ip, source_port,
                                         destination_port, protocol>>,
                            bytes  |-> bytes,
                            hit    |-> r.hit,
                            result |-> r.classified])
        /\ cleared' = IF calls = <<>> THEN cleared ELSE EmptyMap
        /\ UNCHANGED <<statsVars, inputVars, thrVars, progVars>>

GetTrafficSummary ==
    /\ cret' = get_traffic_summary(cache)
    /\ clsOp' = "get_traffic_summary"
    /\ UNCHANGED <<cache, calls, cleared>>
    /\ UNCHANGED <<statsVars, inputVars, thrVars, progVars>>

\* clear_cache that leaves the cache as it is
ClearCache_KeepsCache ==
    /\ cache' = cache
    /\ cret' = NoRet
    /\ clsOp' = "clear_cache"
    /\ calls' = <<>>
    /\ cleared' = cache
    /\ UNCHANGED <<statsVars, inputVars, thrVars, progVars>>

ClearCache ==
    /\ cache' = EmptyMap
    /\ cret' = NoRet
    /\ clsOp' = "clear_cache"
    /\ calls' = <<>>
    /\ cleared' = cache
    /\ UNCHANGED <<statsVars, inputVars, thrVars, progVars>>

\* the flow tuples of the cache model, after the sample traffic of capture_traffic
SourceIps == {"192.168.1.100"}

DestinationIps == {"93.184.216.34"}

SourcePorts == {Some(54321)}

DestinationPorts == {None, Some(0), Some(80), Some(3306)}

Protocols == {"tcp", "udp", "other"}

ByteCounts == {512, 1500}

NextClassifier ==
    \/ \E si \in SourceIps, di \in DestinationIps, sp \in SourcePorts,
          dp \in DestinationPorts, pr \in {"tcp", "udp"}, b \in ByteCounts :
          ClassifyTraffic(si, di, sp, dp, pr, b)
    \/ GetTrafficSummary
    \/ ClearCache

\* one classify_traffic call on a new classifier, for the flow tuple in flow
ClassifyFlow ==
    /\ calls = <<>>
    /\ ClassifyTraffic("192.168.1.100", "93.184.216.34", Some(54321),
                       flow.destination_port, flow.protocol, 1500)

AnyPort == {None} \cup {Some(n) : n \in 0..U16Max}

---------------------------------------------------------------------------
(* TrafficClassifier::classify_packet (src/src/classifier.rs) *)

\* u8::MAX + 1
Byte == 256

\* the two bytes read in little-endian order
from_le_bytes(hi, lo) == lo * Byte + hi

\* u16::from_be_bytes
from_be_bytes(hi, lo) == hi * Byte + lo

\* the match on dport; data[34] and data[35] of the code are data[35] and data[36] here
classify_packet(data) ==
    IF Len(data) < 36 THEN "unknown"
    ELSE LET dport == from_be_bytes(data[35], data[36])
         IN  CASE dport \in {80, 8080} -> "http"
               [] dport = 443 -> "https"
               [] dport = 53 -> "dns"
               [] dport = 1935 -> "rtmp"
               [] dport \in {3478, 5349} -> "webrtc"
               [] OTHER -> IF dport >= 8000 /\ dport <= 9000 THEN "streaming" ELSE "other"

\* a captured packet of len bytes with destination port dport on the wire
\* (network byte order) after a 34 byte header, cut off at len
Packet(len, dport) ==
    [i \in 1..len |-> IF i = 35 THEN dport \div Byte
                      ELSE IF i = 36 THEN dport % Byte
                      ELSE 0]

ShortPorts == {80, 443, 8500}

ClassifyPacket ==
    /\ plabel = ""
    /\ plabel' = classify_packet(pkt)
    /\ UNCHANGED <<flow, pkt, pin>>
    /\ UNCHANGED <<statsVars, clsVars, thrVars, progVars>>

\* process_packet with the length test of classify_packet (36) for its own
process_packet_Min36(cur, data, now) ==
    IF Len(data) < 36 THEN cur
    ELSE AddTo(cur, classify_packet(data), Len(data), 1, now)

\* process_packet on the open accumulator: packets shorter than the Ethernet
\* and IP headers are dropped, the others counted under their label
process_packet(cur, data, now) ==
    IF Len(data) < 34 THEN cur
    ELSE AddTo(cur, classify_packet(data), Len(data), 1, now)

\* the capture loop hands a packet of len bytes to process_packet
ProcessPacket(len, dport) ==
    LET data == Packet(len, dport)
        counted == current # process_packet(current, data, clock)
        service == classify_packet(data)
    IN  /\ nAdds < MaxAdds
        /\ pkt' = data
        /\ pin' = [len |-> len, dport |-> dport]
        /\ plabel' = IF len < 34 THEN "" ELSE service
        /\ current' = process_packet(current, data, clock)
        /\ openSum' = IF counted THEN Tally(openSum, service, len, 1) ELSE openSum
        /\ nAdds' = IF counted THEN nAdds + 1 ELSE nAdds
        /\ ledger' = IF counted /\ ~ledger.purged
                     THEN [ledger EXCEPT !.total = Tally(@, service, len, 1)]
                     ELSE ledger
        /\ lastOp' = "process_packet"
        /\ ret' = NoRet
        /\ obs' = [Observe EXCEPT !.arg = service]
        /\ UNCHANGED <<clock, history, flow>>
        /\ UNCHANGED <<clsVars, thrVars, progVars>>

NextCapture == \E len \in 0..MaxPacketLen, dport \in ShortPorts : ProcessPacket(len, dport)

---------------------------------------------------------------------------
(* NftablesClassifier::initialize (src/src/nftables.rs) *)

\* how one run of the nft program ends: it cannot be started, its standard
\* input cannot be written, it cannot be waited for, it exits with a failure
\* status, or it succeeds
Outcomes == {"spawn", "write_all", "wait_with_output", "status", "success"}

nft_cmd(outcome) == IF outcome = "success" THEN "Ok" ELSE "Err"

\* the command of cleanup
delete_table == "delete table"

\* the commands of create_base_structure, in the order of the vec
commands ==
    <<"add table", "add chain filter", "add chain traffic_stats", "add rule jump",
      "add set netflix_ips", "add set youtube_ips", "add set streaming_ports",
      "add set dynamic_block", "add set user_mac">>

\* the rules of create_statistics_chain, in the order of the vec
netflix_rules ==
    <<"add rule Netflix traffic", "add rule Netflix response",
      "add rule YouTube traffic", "add rule YouTube response">>

\* initialize has been called and has issued nothing yet
NewInitialize == [step |-> "cleanup", index |-> 1, issued |-> <<>>, ret |-> ""]

Issue(n, command, outcome) ==
    [n EXCEPT !.issued = Append(@, [command |-> command, outcome |-> outcome])]

Return(n, result) == [n EXCEPT !.step = "returned", !.index = 1, !.ret = result]

\* cleanup: the result of its nft_cmd is dropped, it returns Ok(())
Cleanup(outcome) ==
    /\ nft.step = "cleanup"
    /\ nft' = [Issue(nft, delete_table, outcome) EXCEPT !.step = "create_base_structure"]
    /\ UNCHANGED <<statsVars, clsVars, inputVars, thrVars, mainVars>>

\* a loop over commands that goes on after a failed command and returns the
\* last result
LoopStep_GoesOn(n, command, outcome, last, after) ==
    IF ~last
    THEN [Issue(n, command, outcome) EXCEPT !.index = @ + 1]
    ELSE IF nft_cmd(outcome) = "Err"
    THEN Return(Issue(n, command, outcome), "Err")
    ELSE after

\* one turn of `for cmd in ... { self.nft_cmd(&cmd)?; }`: the first Err returns
LoopStep(n, command, outcome, last, after) ==
    IF nft_cmd(outcome) = "Err"
    THEN Return(Issue(n, command, outcome), "Err")
    ELSE IF ~last
    THEN [Issue(n, command, outcome) EXCEPT !.index = @ + 1]
    ELSE after

\* one turn of the loop of create_base_structure
BaseCommand(outcome) ==
    /\ nft.step = "create_base_structure"
    /\ LET command == commands[nft.index]
           issued == Issue(nft, command, outcome)
       IN  nft' = LoopStep(nft, command, outcome, nft.index = Len(commands),
                           [issued EXCEPT !.step = "create_statistics_chain",
                                          !.index = 1])
    /\ UNCHANGED <<statsVars, clsVars, inputVars, thrVars, mainVars>>

\* one turn of the loop of create_statistics_chain; after the last rule
\* initialize returns Ok(())
StatisticsRule(outcome) ==
    /\ nft.step = "create_statistics_chain"
    /\ LET command == netflix_rules[nft.index]
           issued == Issue(nft, command, outcome)
       IN  nft' = LoopStep(nft, command, outcome, nft.index = Len(netflix_rules),
                           Return(issued, "Ok"))
    /\ UNCHANGED <<statsVars, clsVars, inputVars, thrVars, mainVars>>

NextInitialize ==
    \E outcome \in Outcomes :
        \/ Cleanup(outcome)
        \/ BaseCommand(outcome)
        \/ StatisticsRule(outcome)

---------------------------------------------------------------------------
(* main, capture_traffic, report_stats and the Ctrl-C handler
   (src/src/main.rs).  main's stats and classifier each sit behind a Mutex of
   their own; every lock() is a step, and the block that holds the guard ends
   with the step that follows it.  The counters of main's TrafficStats only
   grow and no step reads them to decide anything: update and display_summary
   are steps that hold the guard and leave the modelled state as it is.     *)

Workers == {"capture", "report"}

\* the vec of capture_traffic
sample_traffic ==
    <<[source_ip |-> "192.168.1.100", destination_ip |-> "93.184.216.34",
       source_port |-> Some(54321), destination_port |-> Some(80),
       protocol |-> "tcp", bytes |-> 1500],
      [source_ip |-> "192.168.1.100", destination_ip |-> "93.184.216.34",
       source_port |-> Some(54322), destination_port |-> Some(443),
       protocol |-> "tcp", bytes |-> 2500],
      [source_ip |-> "192.168.1.100", destination_ip |-> "192.168.1.200",
       source_port |-> Some(54323), destination_port |-> Some(3306),
       protocol |-> "tcp", bytes |-> 1200],
      [source_ip |-> "192.168.1.100", destination_ip |-> "8.8.8.8",
       source_port |-> Some(54324), destination_port |-> Some(53),
       protocol |-> "udp", bytes |-> 512]>>

\* main has built stats, classifier and running and has installed the Ctrl-C
\* handler; no thread is spawned yet
InitMain ==
    /\ running = TRUE
    /\ at = [main |-> "spawn_capture", capture |-> "unborn", report |-> "unborn"]
    /\ statsLock = NoOwner
    /\ classifierLock = NoOwner
    /\ sample = 1

IdleProgram == InitMain /\ nft = NewInitialize

\* the Ctrl-C handler: running.store(false)
Signal ==
    /\ running
    /\ running' = FALSE
    /\ UNCHANGED <<at, statsLock, classifierLock, sample>>
    /\ UNCHANGED <<statsVars, clsVars, inputVars, thrVars, nft>>

SpawnCapture ==
    /\ at.main = "spawn_capture"
    /\ at' = [at EXCEPT !.main = "spawn_report", !.capture = "loop"]
    /\ UNCHANGED <<running, statsLock, classifierLock, sample>>
    /\ UNCHANGED <<statsVars, clsVars, inputVars, thrVars, nft>>

SpawnReport ==
    /\ at.main = "spawn_report"
    /\ at' = [at EXCEPT !.main = "join_capture", !.report = "loop"]
    /\ UNCHANGED <<running, statsLock, classifierLock, sample>>
    /\ UNCHANGED <<statsVars, clsVars, inputVars, thrVars, nft>>

\* capture_handle.join() returns when capture_traffic has returned
JoinCapture ==
    /\ at.main = "join_capture"
    /\ at.capture = "exited"
    /\ at' = [at EXCEPT !.main = "join_report"]
    /\ UNCHANGED <<running, statsLock, classifierLock, sample>>
    /\ UNCHANGED <<statsVars, clsVars, inputVars, thrVars, nft>>

\* report_handle.join() returns when report_stats has returned; main goes on
\* to its last println
JoinReport ==
    /\ at.main = "join_report"
    /\ at.report = "exited"
    /\ at' = [at EXCEPT !.main = "done"]
    /\ UNCHANGED <<running, statsLock, classifierLock, sample>>
    /\ UNCHANGED <<statsVars, clsVars, inputVars, thrVars, nft>>

\* a loop head that never reads the flag
LoopHead_Forever(t, body) == at' = [at EXCEPT ![t] = body]

\* while running.load(Ordering::SeqCst)
LoopHead(t, body) == at' = [at EXCEPT ![t] = IF running THEN body ELSE "exited"]

CaptureLoop ==
    /\ at.capture = "loop"
    /\ LoopHead("capture", "lock_classifier")
    /\ sample' = 1
    /\ UNCHANGED <<running, statsLock, classifierLock>>
    /\ UNCHANGED <<statsVars, clsVars, inputVars, thrVars, nft>>

\* classifier.lock().unwrap()
CaptureLockClassifier ==
    /\ at.capture = "lock_classifier"
    /\ classifierLock = NoOwner
    /\ classifierLock' = "capture"
    /\ at' = [at EXCEPT !.capture = "classify"]
    /\ UNCHANGED <<running, statsLock, sample>>
    /\ UNCHANGED <<statsVars, clsVars, inputVars, thrVars, nft>>

\* a block whose guard lives on to the end of the loop body
EndOfBlock_KeepsGuard(t, lock) == lock

\* the guard is dropped at the end of its block
EndOfBlock(t, lock) == IF lock = t THEN NoOwner ELSE lock

\* classify_traffic under the guard, then the end of the block
CaptureClassify ==
    /\ at.capture = "classify"
    /\ LET s == sample_traffic[sample]
           r == classify_traffic(cache, s.source_ip, s.destination_ip, s.source_port,
                                 s.destination_port, s.protocol, s.bytes)
       IN  /\ cache' = r.cache
           /\ cret' = r.classified
           /\ clsOp' = "classify_traffic"
    /\ classifierLock' = EndOfBlock("capture", classifierLock)
    /\ at' = [at EXCEPT !.capture = "lock_stats"]
    /\ UNCHANGED <<calls, cleared>>
    /\ UNCHANGED <<running, statsLock, sample>>
    /\ UNCHANGED <<statsVars, inputVars, thrVars, nft>>

\* stats.lock().unwrap()
CaptureLockStats ==
    /\ at.capture = "lock_stats"
    /\ statsLock = NoOwner
    /\ statsLock' = "capture"
    /\ at' = [at EXCEPT !.capture = "update"]
    /\ UNCHANGED <<running, classifierLock, sample>>
    /\ UNCHANGED <<statsVars, clsVars, inputVars, thrVars, nft>>

\* update under the guard, the end of the block, and the turn of the for loop
CaptureUpdate ==
    /\ at.capture = "update"
    /\ statsLock' = EndOfBlock("capture", statsLock)
    /\ IF sample < Len(sample_traffic)
       THEN /\ sample' = sample + 1
            /\ at' = [at EXCEPT !.capture = "lock_classifier"]
       ELSE /\ sample' = 1
            /\ at' = [at EXCEPT !.capture = "sleep"]
    /\ UNCHANGED <<running, classifierLock>>
    /\ UNCHANGED <<statsVars, clsVars, inputVars, thrVars, nft>>

\* thread::sleep(Duration::from_millis(500))
CaptureSleep ==
    /\ at.capture = "sleep"
    /\ at' = [at EXCEPT !.capture = "loop"]
    /\ UNCHANGED <<running, statsLock, classifierLock, sample>>
    /\ UNCHANGED <<statsVars, clsVars, inputVars, thrVars, nft>>

ReportLoop ==
    /\ at.report = "loop"
    /\ LoopHead("report", "lock_stats")
    /\ UNCHANGED <<running, statsLock, classifierLock, sample>>
    /\ UNCHANGED <<statsVars, clsVars, inputVars, thrVars, nft>>

ReportLockStats ==
    /\ at.report = "lock_stats"
    /\ statsLock = NoOwner
    /\ statsLock' = "report"
    /\ at' = [at EXCEPT !.report = "display_summary"]
    /\ UNCHANGED <<running, classifierLock, sample>>
    /\ UNCHANGED <<statsVars, clsVars, inputVars, thrVars, nft>>

\* display_summary under the guard, then the end of the block
ReportDisplaySummary ==
    /\ at.report = "display_summary"
    /\ statsLock' = EndOfBlock("report", statsLock)
    /\ at' = [at EXCEPT !.report = "lock_classifier"]
    /\ UNCHANGED <<running, classifierLock, sample>>
    /\ UNCHANGED <<statsVars, clsVars, inputVars, thrVars, nft>>

ReportLockClassifier ==
    /\ at.report = "lock_classifier"
    /\ classifierLock = NoOwner
    /\ classifierLock' = "report"
    /\ at' = [at EXCEPT !.report = "get_traffic_summary"]
    /\ UNCHANGED <<running, statsLock, sample>>
    /\ UNCHANGED <<statsVars, clsVars, inputVars, thrVars, nft>>

\* get_traffic_summary under the guard, then the end of the block
ReportTrafficSummary ==
    /\ at.report = "get_traffic_summary"
    /\ cret' = get_traffic_summary(cache)
    /\ clsOp' = "get_traffic_summary"
    /\ classifierLock' = EndOfBlock("report", classifierLock)
    /\ at' = [at EXCEPT !.report = "sleep"]
    /\ UNCHANGED <<cache, calls, cleared>>
    /\ UNCHANGED <<running, statsLock, sample>>
    /\ UNCHANGED <<statsVars, inputVars, thrVars, nft>>

\* thread::sleep(Duration::from_secs(interval))
ReportSleep ==
    /\ at.report = "sleep"
    /\ at' = [at EXCEPT !.report = "loop"]
    /\ UNCHANGED <<running, statsLock, classifierLock, sample>>
    /\ UNCHANGED <<statsVars, clsVars, inputVars, thrVars, nft>>

MainStep == SpawnCapture \/ SpawnReport \/ JoinCapture \/ JoinReport

CaptureStep == CaptureLoop \/ CaptureClassify \/ CaptureUpdate \/ CaptureSleep

ReportStep == ReportLoop \/ ReportDisplaySummary \/ ReportTrafficSummary \/ ReportSleep

NextMain ==
    \/ Signal
    \/ MainStep
    \/ CaptureStep
    \/ CaptureLockClassifier
    \/ CaptureLockStats
    \/ ReportStep
    \/ ReportLockStats
    \/ ReportLockClassifier

\* Every thread that can take a step is scheduled in the end.  Each guard is
\* dropped at the end of its block and each thread sleeps with no guard held
\* (500 ms, 5 s), so a thread waiting in lock() finds the Mutex free for such a
\* stretch again and again and is woken: the acquisitions are strongly fair.
\* Nothing obliges the user to press Ctrl-C.
Fairness ==
    /\ WF_vars(MainStep)
    /\ WF_vars(CaptureStep)
    /\ WF_vars(ReportStep)
    /\ SF_vars(CaptureLockClassifier)
    /\ SF_vars(CaptureLockStats)
    /\ SF_vars(ReportLockStats)
    /\ SF_vars(ReportLockClassifier)

---------------------------------------------------------------------------
(* Specifications *)

IdleStats == InitStats /\ clock = 0

IdleInputs ==
    /\ flow = [destination_port |-> None, protocol |-> "tcp"]
    /\ pkt = <<>>
    /\ pin = [len |-> 0, dport |-> 0]
    /\ plabel = ""

\* the statistics aggregator under its callers and the wall clock
Init == InitStats /\ InitClassifier /\ IdleInputs /\ IdleThreads /\ IdleProgram

Spec == Init /\ [][NextStats]_vars

\* the capture loop feeding the statistics aggregator
SpecCapture == Init /\ [][NextCapture]_vars

\* the statistics aggregator shared by two producers and a consumer
SpecThreads == Init /\ [][NextThreads]_vars

\* the classifier and its cache
InitCache == IdleStats /\ InitClassifier /\ IdleInputs /\ IdleThreads /\ IdleProgram

SpecClassifier == InitCache /\ [][NextClassifier]_vars

\* classify_traffic on a new classifier, for every destination port and protocol
InitDetect ==
    /\ IdleStats /\ InitClassifier /\ IdleThreads /\ IdleProgram
    /\ flow \in [destination_port : AnyPort, protocol : Protocols]
    /\ pkt = <<>> /\ pin = [len |-> 0, dport |-> 0] /\ plabel = ""

NextDetect == ClassifyFlow

SpecDetect == InitDetect /\ [][NextDetect]_vars

\* classify_packet, for packets of every length and, at full length, every
\* destination port
InitPacket ==
    /\ IdleStats /\ InitClassifier /\ IdleThreads /\ IdleProgram
    /\ flow = [destination_port |-> None, protocol |-> "tcp"]
    /\ \E len \in 0..MaxPacketLen :
          \E dport \in (IF len = MaxPacketLen THEN 0..U16Max ELSE ShortPorts) :
             /\ pin = [len |-> len, dport |-> dport]
             /\ pkt = Packet(len, dport)
    /\ plabel = ""

NextPacket == ClassifyPacket

SpecPacket == InitPacket /\ [][NextPacket]_vars

\* initialize, one nft command at a time
SpecInitialize == Init /\ [][NextInitialize]_vars

\* main with its two threads and the Ctrl-C handler
SpecMain == InitCache /\ [][NextMain]_vars

\* the same under a fair scheduler
SpecMainFair == InitCache /\ [][NextMain]_vars /\ Fairness

---------------------------------------------------------------------------
(* What the claims speak of *)

Queries == {"get_stats", "get_detailed_stats"}

\* age of a History entry as the claims define it: now - close_timestamp
Age(e, now) == now - e[1]

Expired(e, now) == Age(e, now) >= RetentionPeriod

Young(h, now) == SelectSeq(h, LAMBDA e : ~Expired(e, now))

\* History as a purge finds it: the entries plus the window the call closes
WithOpen(h, cur, now) == IF cur = EmptyMap THEN h ELSE h \o << <<now, cur>> >>

HistLabels(h) == UNION {DOMAIN h[i][2] : i \in 1..Len(h)}

RECURSIVE HistSum(_, _, _)
HistSum(h, l, f) ==
    IF h = <<>> THEN 0
    ELSE (IF l \in DOMAIN Head(h)[2] THEN Head(h)[2][l][f] ELSE 0) + HistSum(Tail(h), l, f)

\* label -> <<bytes, packets>> summed over the entries of h
ExpectedStats(h) ==
    [l \in HistLabels(h) |-> <<HistSum(h, l, "bytes"), HistSum(h, l, "packets")>>]

\* the <<bytes, packets>> view of what a query returned
Totals(r, op) ==
    IF op = "get_stats" THEN r ELSE [l \in DOMAIN r |-> <<r[l].bytes, r[l].packets>>]

\* the <<bytes, packets>> of an Option<TrafficData>
ServiceTotals(r) == IF r = None THEN <<0, 0>> ELSE <<r[1].bytes, r[1].packets>>

\* the <<bytes, packets>> of a service over the open accumulator and the entries of h
ExpectedService(cur, h, l) ==
    <<(IF l \in DOMAIN cur THEN cur[l].bytes ELSE 0) + HistSum(h, l, "bytes"),
      (IF l \in DOMAIN cur THEN cur[l].packets ELSE 0) + HistSum(h, l, "packets")>>

WellOrdered(td) == td.first_seen <= td.last_seen

---------------------------------------------------------------------------
(* C1 *)

C2_ResetEmpties ==
    /\ lastOp = "reset_stats" =>
          /\ current = EmptyMap
          /\ history = <<>>
          /\ \A l \in Labels : get_service_stats(current, history, l) = None
    /\ (nAdds = 0 /\ lastOp = "get_stats") => ret = EmptyMap
    /\ (nAdds = 0 /\ lastOp = "get_service_stats") => ret = None

\* reset_stats() has just cleared an open bucket and a History entry
C2_Witness ==
    /\ lastOp = "reset_stats"
    /\ obs.hadCur
    /\ obs.hadHist > 0
    /\ current = EmptyMap
    /\ history = <<>>

(* C3 *)

\* C3: after get_stats() or get_detailed_stats(), History holds exactly the
\* entries (the just closed window included) whose age now - close_timestamp
\* is below retention_period, and the returned totals are the sums over
\* exactly those entries.
C3_PurgeByAge ==
    [][lastOp' \in Queries =>
          LET kept == Young(WithOpen(history, current, clock), clock)
          IN  /\ history' = kept
              /\ Totals(ret', lastOp') = ExpectedStats(kept)]_vars

(* C4 *)

\* C4 as stated: no read operation (get_stats, get_detailed_stats,
\* get_service_stats) returns bytes or packets of a History entry whose age
\* is >= retention_period.
C4_NoReadCountsExpired ==
    /\ lastOp \in Queries =>
          /\ \A i \in 1..Len(history) : ~Expired(history[i], clock)
          /\ Totals(ret, lastOp) = ExpectedStats(history)
    /\ lastOp = "get_service_stats" =>
          ServiceTotals(ret) = ExpectedService(current, Young(history, clock), obs.arg)

\* C4 as amended: get_stats() and get_detailed_stats() purge before they
\* read: History then holds no entry whose age is >= retention_period and
\* the returned bytes and packets are the sums over the entries it holds.
\* get_service_stats() does not purge: it counts every entry of History,
\* whatever its age.
C4_QueriesPurgeFirst ==
    /\ lastOp \in Queries =>
          /\ \A i \in 1..Len(history) : ~Expired(history[i], clock)
          /\ Totals(ret, lastOp) = ExpectedStats(history)
    /\ lastOp = "get_service_stats" =>
          ServiceTotals(ret) = ExpectedService(current, history, obs.arg)

\* a query has purged an expired entry and returned the totals of the rest
C4_Witness ==
    /\ lastOp \in Queries
    /\ obs.purged > 0
    /\ ret # EmptyMap

(* C5 *)

\* C5: first_seen <= last_seen for every bucket of the open accumulator, for
\* every bucket of every History entry and for every bucket returned by
\* get_detailed_stats() and get_service_stats().
C5_FirstBeforeLast ==
    /\ \A l \in DOMAIN current : WellOrdered(current[l])
    /\ \A i \in 1..Len(history) :
          \A l \in DOMAIN history[i][2] : WellOrdered(history[i][2][l])
    /\ lastOp = "get_detailed_stats" => \A l \in DOMAIN ret : WellOrdered(ret[l])
    /\ (lastOp = "get_service_stats" /\ ret # None) => WellOrdered(ret[1])

---------------------------------------------------------------------------
(* C6 *)

LastCall == calls[Len(calls)]

\* C6: a classify_traffic call of a tuple classified before (since
\* construction or clear_cache) is a cache hit that returns the very
\* ClassifiedTraffic the earlier call returned, whatever byte count it
\* passes, and leaves the cache as it was; the record a hit returns is the one
\* stored by the miss that created it, with the byte count passed to that
\* miss and packet count 1.
C6_HitReturnsCached ==
    [][clsOp' = "classify_traffic" =>
          LET c == calls'[Len(calls')]
          IN  /\ \A i \in 1..Len(calls) :
                    calls[i].args = c.args =>
                       /\ c.hit
                       /\ c.result = calls[i].result
              /\ c.hit =>
                    /\ cache' = cache
                    /\ \E i \in 1..Len(calls) :
                          /\ ~calls[i].hit
                          /\ c.result = calls[i].result
                          /\ c.result.bytes = calls[i].bytes
                          /\ c.result.packets = 1
              /\ ~c.hit => (c.result.bytes = c.bytes /\ c.result.packets = 1)]_vars

\* the same tuple classified twice with different byte counts: the second
\* call returned the byte count of the first
C6_Witness ==
    /\ clsOp = "classify_traffic"
    /\ Len(calls) >= 2
    /\ \E i \in 1..(Len(calls) - 1) :
          /\ calls[i].args = LastCall.args
          /\ ~calls[i].hit
          /\ calls[i].bytes # LastCall.bytes
          /\ LastCall.hit
          /\ cret.bytes = calls[i].bytes

(* C7 *)

\* the exact (port, protocol) entries, as a list
ExactEntries ==
    {<<80, "tcp", HTTP>>, <<443, "tcp", HTTPS>>, <<8080, "tcp", HTTP_Alt>>,
     <<3306, "tcp", MySQL>>, <<5432, "tcp", PostgreSQL>>, <<27017, "tcp", MongoDB>>,
     <<53, "udp", DNS>>, <<53, "tcp", DNS>>}

HasExact(n, protocol) == \E e \in ExactEntries : e[1] = n /\ e[2] = protocol

FallbackPorts == {20, 21, 22, 25, 53, 80, 443, 3306, 5432}

ExpectedLabel(port, protocol) ==
    IF port = None THEN Unknown
    ELSE LET n == port[1]
         IN  IF HasExact(n, protocol)
             THEN (CHOOSE e \in ExactEntries : e[1] = n /\ e[2] = protocol)[3]
             ELSE IF n = 20 \/ n = 21 THEN FTP
             ELSE IF n = 22 THEN SSH
             ELSE IF n = 25 THEN SMTP
             ELSE IF n = 53 THEN DNS
             ELSE IF n = 80 THEN HTTP
             ELSE IF n = 443 THEN HTTPS
             ELSE IF n = 3306 THEN MySQL
             ELSE IF n = 5432 THEN PostgreSQL
             ELSE Unknown

\* the labels whose lower-cased form contains "http" or "web", and "mysql" or "postgres"
ExpectedCategory(label, port) ==
    IF label \in {HTTP, HTTPS, HTTP_Alt} THEN "Web"
    ELSE IF label \in {MySQL, PostgreSQL} THEN "Database"
    ELSE IF port = None THEN "Unknown"
    ELSE IF port[1] \in {80, 443, 8080, 8443} THEN "Web"
    ELSE IF port[1] \in {3306, 5432, 27017} THEN "Database"
    ELSE IF port[1] \in {21, 22} THEN "FileTransfer"
    ELSE "Unknown"

\* C7: on a cache miss classify_traffic returns, for every destination port
\* (absent or 0..65535) and every protocol in {tcp, udp, other}, the label
\* of the exact (port, protocol) entry, else of the well-known port, else
\* "Unknown", and the category of the label, else of the port, else Unknown.
C7_Precedence ==
    clsOp = "classify_traffic" =>
       /\ ~LastCall.hit
       /\ cret.application = ExpectedLabel(flow.destination_port, flow.protocol)
       /\ cret.category = ExpectedCategory(cret.application, flow.destination_port)

\* destination port 80 over tcp was classified as HTTP, Web
C7_Witness ==
    /\ clsOp = "classify_traffic"
    /\ flow = [destination_port |-> Some(80), protocol |-> "tcp"]
    /\ cret.application = HTTP
    /\ cret.category = "Web"

(* C8 *)

\* no destination port, or one with neither an exact entry nor a well-known label
Unrecognized(port, protocol) ==
    \/ port = None
    \/ (~HasExact(port[1], protocol) /\ port[1] \notin FallbackPorts)

\* what classify_traffic returns for the tuple f on the cache as it is
Returned(f) ==
    classify_traffic(cache, "192.168.1.100", "93.184.216.34", Some(54321),
                     f.destination_port, f.protocol, 1500).classified

\* classify_traffic returned a ClassifiedTraffic
IsClassifiedTraffic(r) ==
    /\ DOMAIN r = {"bytes", "packets", "protocol", "source_ip", "destination_ip",
                   "source_port", "destination_port", "application", "category"}
    /\ r.category \in TrafficCategory

\* C8 as stated: classify_traffic returns a ClassifiedTraffic for every
\* input, before and after the call, and for every unrecognized input it has
\* label "Unknown" and category Unknown.
C8_UnrecognizedIsUnknown ==
    /\ IsClassifiedTraffic(Returned(flow))
    /\ clsOp = "classify_traffic" =>
          /\ IsClassifiedTraffic(cret)
          /\ Unrecognized(flow.destination_port, flow.protocol) =>
                (cret.application = Unknown /\ cret.category = "Unknown")

\* C8 as amended: classify_traffic returns a ClassifiedTraffic for every
\* input, and for every unrecognized input it has label "Unknown"; its category is
\* Unknown unless the destination port is 8080 or 8443 (Web) or 27017
\* (Database), which step 4 maps by port alone.
C8_UnrecognizedLabelUnknown ==
    /\ IsClassifiedTraffic(Returned(flow))
    /\ clsOp = "classify_traffic" =>
          /\ IsClassifiedTraffic(cret)
          /\ Unrecognized(flow.destination_port, flow.protocol) =>
                /\ cret.application = Unknown
                /\ cret.category =
                      (IF flow.destination_port = None THEN "Unknown"
                       ELSE IF flow.destination_port[1] \in {8080, 8443} THEN "Web"
                       ELSE IF flow.destination_port[1] = 27017 THEN "Database"
                       ELSE "Unknown")

\* an unrecognized port that step 4 still puts into a category
C8_Witness ==
    /\ clsOp = "classify_traffic"
    /\ flow = [destination_port |-> Some(8443), protocol |-> "other"]
    /\ cret.application = Unknown
    /\ cret.category = "Web"

(* C9 *)

ExpectedPacketLabel(len, dport) ==
    IF len < 36 THEN "unknown"
    ELSE IF dport \in {80, 8080} THEN "http"
    ELSE IF dport = 443 THEN "https"
    ELSE IF dport = 53 THEN "dns"
    ELSE IF dport = 1935 THEN "rtmp"
    ELSE IF dport \in {3478, 5349} THEN "webrtc"
    ELSE IF dport \in 8000..9000 THEN "streaming"
    ELSE "other"

Misses(log) == {i \in 1..Len(log) : ~log[i].hit}

RECURSIVE SumPassed(_, _)
SumPassed(log, idx) ==
    IF idx = {} THEN 0
    ELSE LET i == CHOOSE i \in idx : TRUE
         IN  log[i].bytes + SumPassed(log, idx \ {i})

\* per category, the bytes passed to the calls that created a cache entry
ExpectedSummary(log) ==
    [cat \in {log[i].result.category : i \in Misses(log)} |->
        SumPassed(log, {i \in Misses(log) : log[i].result.category = cat})]

\* C10: get_traffic_summary() maps each category to the sum, over the cache
\* entries of that category, of the byte count passed to the call that
\* created the entry; categories without an entry are absent; cache hits
\* add nothing.
C10_SummaryOfFirsts ==
    /\ get_traffic_summary(cache) = ExpectedSummary(calls)
    /\ clsOp = "get_traffic_summary" => cret = ExpectedSummary(calls)

\* two entries of one category and a hit with another byte count, summed up
C10_Witness ==
    /\ clsOp = "get_traffic_summary"
    /\ \E i, j, k \in 1..Len(calls) :
          /\ i # j
          /\ ~calls[i].hit /\ ~calls[j].hit /\ calls[k].hit
          /\ calls[i].result.category = calls[j].result.category
          /\ calls[k].bytes # calls[k].result.bytes
    /\ cret # EmptyMap

---------------------------------------------------------------------------
(* C11 *)

\* C11: get_service_stats(label) leaves the open accumulator and History
\* exactly as they were, for every label and from every state, also when
\* History holds entries older than the retention period: no window close,
\* no purge, no bucket created.
C11_ServiceStatsReadOnly ==
    [][lastOp' = "get_service_stats" =>
          (current' = current /\ history' = history)]_vars

\* get_service_stats has run over an open bucket and an expired History entry
C11_Witness ==
    /\ lastOp = "get_service_stats"
    /\ current # EmptyMap
    /\ \E i \in 1..Len(history) : Expired(history[i], clock)

(* C12 *)

\* the buckets of label l: the open one and those of the entries of h
Contributing(cur, h, l) ==
    (IF l \in DOMAIN cur THEN {cur[l]} ELSE {})
        \cup {h[i][2][l] : i \in {j \in 1..Len(h) : l \in DOMAIN h[j][2]}}

Min(S) == CHOOSE x \in S : \A y \in S : x <= y

Max(S) == CHOOSE x \in S : \A y \in S : x >= y

\* C12: get_service_stats(label) returns None exactly when label occurs
\* neither in the open accumulator nor in any History entry; otherwise the
\* returned bucket has the sums of bytes and of packets over the open bucket
\* and every History bucket of the label, the least first_seen and the
\* greatest last_seen of those buckets.
C12_ServiceResult ==
    lastOp = "get_service_stats" =>
       LET B == Contributing(current, history, obs.arg)
       IN  /\ (ret = None) <=> (B = {})
           /\ ret # None =>
                 /\ ServiceTotals(ret) = ExpectedService(current, history, obs.arg)
                 /\ ret[1].first_seen = Min({b.first_seen : b \in B})
                 /\ ret[1].last_seen = Max({b.last_seen : b \in B})

\* a label with an open bucket and an earlier History bucket: the result
\* starts before the open bucket does
C12_Witness ==
    /\ lastOp = "get_service_stats"
    /\ ret # None
    /\ obs.arg \in DOMAIN current
    /\ obs.arg \in HistLabels(history)
    /\ ret[1].first_seen < current[obs.arg].first_seen
    /\ ret[1].bytes > current[obs.arg].bytes

(* C13 *)

\* C13: get_detailed_stats() closes the window and purges as get_stats()
\* does, and returns exactly the labels of the entries History then holds,
\* each with the bytes and packets summed over those entries (the numbers
\* get_stats() returns from them), the least first_seen and the greatest
\* last_seen over them.
C13_DetailedLikeStats ==
    [][lastOp' = "get_detailed_stats" =>
          /\ current' = EmptyMap
          /\ history' = clean_old_data(CloseWindow(history, current, clock), clock)
          /\ DOMAIN ret' = HistLabels(history')
          /\ Totals(ret', "get_detailed_stats") = merge_history(history')
          /\ Totals(ret', "get_detailed_stats") = ExpectedStats(history')
          /\ \A l \in DOMAIN ret' :
                LET B == Contributing(EmptyMap, history', l)
                IN  /\ ret'[l].first_seen = Min({b.first_seen : b \in B})
                    /\ ret'[l].last_seen = Max({b.last_seen : b \in B})]_vars

\* get_detailed_stats has merged two entries holding the same label, one
\* later than the other, and left another label out
C13_Witness ==
    /\ lastOp = "get_detailed_stats"
    /\ Len(history) = 2
    /\ \E l \in DOMAIN ret :
          /\ l \in DOMAIN history[1][2]
          /\ l \in DOMAIN history[2][2]
          /\ ret[l].first_seen < ret[l].last_seen
          /\ ret[l].bytes = 3
    /\ DOMAIN ret # Labels

(* C14 *)

\* a is b with some entries taken out
RECURSIVE SubSeqOf(_, _)
SubSeqOf(a, b) ==
    IF a = <<>> THEN TRUE
    ELSE IF b = <<>> THEN FALSE
    ELSE \/ (Head(a) = Head(b) /\ SubSeqOf(Tail(a), Tail(b)))
         \/ SubSeqOf(a, Tail(b))

C17_FutureEntryKept ==
    [][lastOp' \in Queries =>
          \A i \in 1..Len(history) :
             history[i][1] > clock =>
                /\ \E j \in 1..Len(history') : history'[j] = history[i]
                /\ \A l \in DOMAIN history[i][2] : l \in DOMAIN ret']_vars

(* C20 *)

\* what the ledger holds for label l
Passed(l) == IF l \in DOMAIN ledger.total THEN ledger.total[l] ELSE <<0, 0>>

\* C20: as long as no History entry has been purged since construction or
\* the last reset_stats(), the bytes and packets of a label's open bucket
\* plus those of its buckets in all History entries equal the bytes and
\* packets passed to add_traffic for the label; a window close therefore
\* moves the counts into History without dropping or duplicating any.
C20_Conservation ==
    ~ledger.purged =>
       \A l \in Labels : ExpectedService(current, history, l) = Passed(l)

\* two adds of one label, each closed into an entry of its own, nothing purged
C20_Witness ==
    /\ ~ledger.purged
    /\ lastOp \in Queries
    /\ obs.hadCur
    /\ Len(history) = 2
    /\ current = EmptyMap
    /\ \E l \in Labels : Passed(l) = <<3, 3>>

(* C19 *)

\* the cache key of the arguments of a recorded call
KeyOf(c) == cache_key(c.args[1], c.args[2], c.args[3], c.args[4], c.args[5])

\* C19: clear_cache() leaves the cache empty from any state, so that
\* get_traffic_summary() directly afterwards returns the empty mapping, and
\* the classify_traffic call that follows it, of a tuple cached before or
\* not, is a miss: it computes label and category anew and stores and
\* returns the byte count passed to it.
C19_ClearEmpties ==
    [][/\ clsOp' = "clear_cache" =>
             (cache' = EmptyMap /\ get_traffic_summary(cache') = EmptyMap)
       /\ (clsOp = "clear_cache" /\ clsOp' = "get_traffic_summary") =>
             cret' = EmptyMap
       /\ (clsOp = "clear_cache" /\ clsOp' = "classify_traffic") =>
             LET c == calls'[1]
             IN  /\ ~c.hit
                 /\ cret'.bytes = c.bytes
                 /\ cret'.application = ExpectedLabel(c.args[4], c.args[5])
                 /\ cret'.category = ExpectedCategory(cret'.application, c.args[4])
                 /\ DOMAIN cache' = {KeyOf(c)}
                 /\ cache'[KeyOf(c)] = cret']_vars

\* a tuple cached with one byte count, cleared, and classified again with
\* another: the call returned the byte count passed to it
C19_Witness ==
    /\ clsOp = "classify_traffic"
    /\ Len(calls) = 1
    /\ KeyOf(calls[1]) \in DOMAIN cleared
    /\ cleared[KeyOf(calls[1])].bytes # calls[1].bytes
    /\ ~calls[1].hit
    /\ cret.bytes = calls[1].bytes

(* C16 *)

InCall(t) == pc[t] \notin {"idle", "done", "panicked"}

\* C16: with two producers in add_traffic and a consumer in the other
\* operations, in every interleaving of their statements a thread inside a
\* call holds the guard, so no two calls overlap; whenever no call is under
\* way (and nothing was purged) the open bucket plus the History buckets of
\* every label hold exactly the bytes and packets passed to add_traffic; and
\* a get_stats() that returns after both producers have finished returns,
\* for each label, exactly the sum of what was added.
C16_AtomicCalls ==
    /\ \A t \in Threads : InCall(t) => owner = t
    /\ (owner = NoOwner /\ ~poisoned /\ ~ledger.purged) =>
          \A l \in Labels : ExpectedService(current, history, l) = Passed(l)
    /\ ((\A p \in Producers : pc[p] = "done") /\ lastOp = "get_stats" /\ ~ledger.purged) =>
          ret = ledger.total

\* both producers added the same label, a query closed the window between
\* the two adds, and a final get_stats() returned the sum of both
C16_Witness ==
    /\ \A p \in Producers : pc[p] = "done"
    /\ lastOp = "get_stats"
    /\ ~ledger.purged
    /\ Len(history) = 2
    /\ \E l \in Labels : l \in DOMAIN ret /\ ret[l] = <<3, 3>>

(* C18 *)

\* C18: once an operation has panicked inside its critical section (the
\* Mutex is poisoned), every call that begins ends in a panic of the calling
\* thread at lock().unwrap(): no call returns and the open accumulator and
\* History stay as they are.
C18_PoisonIsFatal ==
    [][poisoned =>
          /\ current' = current
          /\ history' = history
          /\ (lastOp' = "tick" \/ (lastOp' = lastOp /\ ret' = ret))
          /\ \A t \in Threads :
                pc'[t] # pc[t] => (pc[t] = "idle" /\ pc'[t] = "panicked")]_vars

\* a producer panicked with its bucket half updated, and the other producer
\* and the consumer panicked at their next call
C18_Witness ==
    /\ poisoned
    /\ \A t \in Threads : pc[t] = "panicked"
    /\ \E l \in DOMAIN current : current[l].bytes > 0 /\ current[l].packets = 0

(* C21 *)

\* C21: a get_stats() that follows a query with no add_traffic and no
\* reset_stats in between (the open accumulator is still empty) and finds no
\* History entry of age >= retention_period leaves History as it is and
\* returns the totals over it, the mapping the earlier call returned; and
\* as long as a get_stats() purges nothing, no label's total is below the
\* total over the History the call found.
C21_RepeatedGetStats ==
    [][lastOp' = "get_stats" =>
          /\ (current = EmptyMap /\ \A i \in 1..Len(history) : ~Expired(history[i], clock)) =>
                (history' = history /\ ret' = ExpectedStats(history))
          /\ (lastOp = "get_stats" /\ current = EmptyMap) => ret' = ret
          /\ obs'.purged = 0 =>
                \A l \in HistLabels(history) :
                   /\ l \in DOMAIN ret'
                   /\ ret'[l][1] >= ExpectedStats(history)[l][1]
                   /\ ret'[l][2] >= ExpectedStats(history)[l][2]]_vars

(* C22 *)

\* C22: every ClassifiedTraffic that classify_traffic returns, on a hit as
\* on a miss, carries the source address, destination address, source port,
\* destination port and protocol the call was made with.
C22_ResultCarriesArguments ==
    clsOp = "classify_traffic" =>
       /\ cret.source_ip = LastCall.args[1]
       /\ cret.destination_ip = LastCall.args[2]
       /\ cret.source_port = LastCall.args[3]
       /\ cret.destination_port = LastCall.args[4]
       /\ cret.protocol = LastCall.args[5]

(* C26 *)

AssignedCategories == {"Web", "Database", "FileTransfer", "Unknown"}

\* C26: whatever destination port (absent or 0..65535) and protocol is
\* passed, the category classify_traffic returns and stores is one of Web,
\* Database, FileTransfer, Unknown; Streaming, Gaming, Voip and Malicious
\* are declared but never assigned, so no key of get_traffic_summary() is
\* one of them.
C26_FourCategories ==
    /\ AssignedCategories \subseteq TrafficCategory
    /\ clsOp = "classify_traffic" => cret.category \in AssignedCategories
    /\ \A k \in DOMAIN cache : cache[k].category \in AssignedCategories
    /\ DOMAIN get_traffic_summary(cache) \subseteq AssignedCategories

\* the RTMP port 1935 was classified: its category is Unknown, the only key
\* of the summary
C26_Witness ==
    /\ clsOp = "classify_traffic"
    /\ flow.destination_port = Some(1935)
    /\ cret.category = "Unknown"
    /\ DOMAIN get_traffic_summary(cache) = {"Unknown"}

(* C28 *)

\* C28: no History entry holds an empty label mapping: a window is pushed
\* only when the open accumulator is non-empty, and the entry is the
\* accumulator as it was before it is cleared.
C28_NoEmptyEntry ==
    \A i \in 1..Len(history) : history[i][2] # EmptyMap

\* queries with an empty open accumulator have run after one that closed a
\* window: History still holds the one non-empty entry
C28_Witness ==
    /\ lastOp \in Queries
    /\ ~obs.hadCur
    /\ obs.hadHist = 1
    /\ Len(history) = 1
    /\ history[1][2] # EmptyMap

(* C23 *)

\* the counter f of label l in the open accumulator cur, 0 without a bucket
Open(cur, l, f) == IF l \in DOMAIN cur THEN cur[l][f] ELSE 0

\* C23: process_packet leaves the aggregator as it is for a packet of fewer
\* than 34 bytes; for a packet of L >= 34 bytes it adds L bytes and 1 packet
\* to the bucket of the packet's label ("unknown" for L = 34 and 35, else
\* the label of the destination port), creating the bucket if need be, and
\* touches no other bucket and no History entry.
C23_OneAddPerPacket ==
    [][lastOp' = "process_packet" =>
          LET L == pin'.len
              l == ExpectedPacketLabel(L, pin'.dport)
          IN  /\ Len(pkt') = L
              /\ history' = history
              /\ IF L < 34
                 THEN current' = current
                 ELSE /\ DOMAIN current' = DOMAIN current \cup {l}
                      /\ current'[l].bytes = Open(current, l, "bytes") + L
                      /\ current'[l].packets = Open(current, l, "packets") + 1
                      /\ \A k \in DOMAIN current \ {l} : current'[k] = current[k]
                      /\ L \in {34, 35} => l = "unknown"]_vars

\* a packet of 35 bytes after one of 34: both are counted under "unknown"
C23_Witness ==
    /\ lastOp = "process_packet"
    /\ pin.len = 35
    /\ DOMAIN current = {"unknown"}
    /\ current["unknown"].bytes = 69
    /\ current["unknown"].packets = 2



---------------------------------------------------------------------------
(* initialize *)

\* every command initialize can issue, in the order of its three steps
InitializeOrder == <<delete_table>> \o commands \o netflix_rules

Failed(i) == nft_cmd(nft.issued[i].outcome) = "Err"

\* C27: initialize issues its commands in the order cleanup, base structure,
\* statistics chain; a failed table deletion changes nothing; the first failed
\* command of the two later steps is the last command issued and makes
\* initialize return an error; initialize returns Ok only after every command
\* of the two later steps has succeeded.
C27_InitializeOrder ==
    LET n == Len(nft.issued)
    IN  /\ n <= Len(InitializeOrder)
        /\ \A i \in 1..n : nft.issued[i].command = InitializeOrder[i]
        /\ \A i \in 2..n : Failed(i) => i = n /\ nft.ret = "Err"
        /\ nft.ret = "Err" => n >= 2 /\ Failed(n)
        /\ nft.ret = "Ok" => n = Len(InitializeOrder) /\ \A i \in 2..n : ~Failed(i)
        /\ nft.step = "returned" <=> nft.ret # ""
        /\ nft.step # "returned" /\ n >= 1 /\ ~Failed(n) => n < Len(InitializeOrder)

\* the table deletion failed and initialize returned Ok all the same
C27_Witness ==
    /\ nft.ret = "Ok"
    /\ Failed(1)


---------------------------------------------------------------------------
(* the two threads of main and their locks *)

Holds(t, lock) == lock = t

WaitsForStats(t) == at[t] = "lock_stats"

WaitsForClassifier(t) == at[t] = "lock_classifier"

\* the thread is inside the block that holds the guard
InStats(t) == at[t] \in {"update", "display_summary"}

InClassifier(t) == at[t] \in {"classify", "get_traffic_summary"}

\* no thread holds the guards of both Mutexes
NeverBoth == \A t \in Workers : ~(Holds(t, statsLock) /\ Holds(t, classifierLock))

\* a guard is held by the thread inside the block of that guard, and by no other
GuardsMatchBlocks ==
    \A t \in Workers :
        /\ Holds(t, statsLock) <=> InStats(t)
        /\ Holds(t, classifierLock) <=> InClassifier(t)

\* a thread that holds a guard is not waiting for a lock: it can go on and
\* drop the guard
HolderNeverWaits ==
    \A t \in Workers :
        Holds(t, statsLock) \/ Holds(t, classifierLock)
            => ~WaitsForStats(t) /\ ~WaitsForClassifier(t)

\* C24: the capture thread and the report thread never hold the statistics
\* lock and the classifier lock at once, the holder of a lock is never itself
\* waiting for one, and under the fair scheduler a thread waiting for either
\* lock acquires it in the end: the two never deadlock.
C24_NoDeadlock ==
    /\ [](NeverBoth /\ GuardsMatchBlocks /\ HolderNeverWaits)
    /\ \A t \in Workers :
          /\ WaitsForStats(t) ~> Holds(t, statsLock)
          /\ WaitsForClassifier(t) ~> Holds(t, classifierLock)

\* the report thread waits for the classifier lock while the capture thread
\* holds it, and the capture thread has held the statistics lock before
C24_Witness ==
    /\ WaitsForClassifier("report")
    /\ Holds("capture", classifierLock)
    /\ sample > 1

Exited(t) == at[t] = "exited"

\* the thread leaves the head of its loop for the body
StartsIteration(t) == at[t] = "loop" /\ at'[t] \notin {"loop", "exited"}

\* C25: once running is false, both loops finish the iteration they are in
\* and exit, both joins return and main reaches its last step; no loop starts
\* an iteration while running is false, and none exits while it is true; the
\* flag never becomes true again.
C25_Shutdown ==
    /\ ~running ~> at.main = "done"
    /\ [](\A t \in Workers : Exited(t) => ~running)
    /\ [](at.main = "done" => \A t \in Workers : Exited(t))
    /\ [][\A t \in Workers : ~running => ~StartsIteration(t)]_vars
    /\ [][~running => ~running']_vars

\* main has reached its last step after both threads ran iterations
C25_Witness ==
    /\ at.main = "done"
    /\ clsOp = "get_traffic_summary"
    /\ DOMAIN cache # {}

====
